---- MODULE Spec2Model ----
(***************************************************************************)
(* Link-upload metadata pipeline of kb-frontend: short-code allocation,    *)
(* uploadLink, the asynchronous enrichment task (extractMetadataAsync),    *)
(* the multi-provider resolver (extractLinkMetadata), the manual retry,    *)
(* the status poll, the batch upload and the upload controller.            *)
(* Every await of the TypeScript source is a step boundary; the code       *)
(* between two awaits is one atomic action (single-threaded event loop).   *)
(***************************************************************************)
EXTENDS Naturals, Sequences, FiniteSets

VARIABLES
    files,      \* the 'files' collection, in insertion order; _id = index
    calls,      \* calls made so far, by kind: link, file, retry, status, request, multi
    tasks,      \* enrichment tasks (extractMetadataAsync promises), by dispatch order
    budget,     \* calls the environment may still make: uploads, retries
    ogEnv       \* process.env.OG_SERVICE_URL ("" when unset)

vars == <<files, calls, tasks, budget, ogEnv>>

----------------------------------------------------------------------------
(* Bounds of the model *)

MaxUploads == 1      \* upload calls in one behaviour of Spec
MaxRetries == 1      \* retryMetadataExtraction calls in one behaviour of Spec
RaceUploads == 2     \* upload calls in one behaviour of SpecRace
MaxDraws == 2        \* draws of generateShortCode explored per allocation
NumCodes == 2        \* size of the modelled short-code space
MaxRepeats == 2      \* retryMetadataExtraction calls in one behaviour of SpecRetry
MaxPolls == 2        \* getMetadataStatus calls in one behaviour of SpecStatus
MaxRequests == 1     \* POST /upload requests in one behaviour of SpecRequest
MaxBatch == 3        \* items of the urls array of a request
MaxCount == 2        \* largest count given to generateMultipleShortCodes
MaxDeletes == 1      \* deleteFile calls in one behaviour of SpecDelete
MaxQueries == 1      \* searchLinks / getUserLinks calls in one behaviour of SpecDelete

(* Program constants *)

maxAttempts == 100   \* ShortCodeService.generateUniqueShortCode

----------------------------------------------------------------------------
(* Values *)

Empty == ""          \* undefined / empty string: both are falsy in the source

PENDING == "pending"
PROCESSING == "processing"
COMPLETED == "completed"
FAILED == "failed"
NoStatus == "none"   \* metadataStatus absent (binary file records)

ACTIVE == "active"
DELETED == "deleted"

Codes == 1..NumCodes

MicrolinkUrl == "https://api.microlink.io?url="
OpenGraphXyzUrl == "https://opengraph.xyz/api/v1/site-info?url="
CustomOgUrl == "https://og.example.org/?url="

GoodUrl == "https://a.com"
FtpUrl == "ftp://a.com"
BadUrl == "not-a-url"

EmptyMeta == [title |-> Empty, description |-> Empty, thumbnail |-> Empty]
MetaTD == [title |-> "T1", description |-> "D1", thumbnail |-> Empty]
MetaH == [title |-> Empty, description |-> Empty, thumbnail |-> "H2"]

\* what a provider request can end with: the fetch rejects (transport error,
\* or the 15 s abort), or a response with a status and a parsed body
Responses ==
    { [kind |-> "reject", status |-> 0, body |-> EmptyMeta],
      [kind |-> "response", status |-> 500, body |-> EmptyMeta] }
    \cup { [kind |-> "response", status |-> 200, body |-> m] :
              m \in {EmptyMeta, MetaTD, MetaH} }

\* caller inputs of uploadLink (LinkUploadInput)
LinkInputs ==
    { [url |-> GoodUrl, title |-> Empty, description |-> Empty,
       categories |-> <<"website">>, tags |-> << >>,
       uploadIp |-> "10.0.0.1", uploaderId |-> Empty],
      [url |-> GoodUrl, title |-> "X", description |-> "Y",
       categories |-> <<"website">>, tags |-> <<"t">>,
       uploadIp |-> "10.0.0.1", uploaderId |-> "user1"],
      [url |-> FtpUrl, title |-> Empty, description |-> Empty,
       categories |-> <<"website">>, tags |-> << >>,
       uploadIp |-> "10.0.0.1", uploaderId |-> Empty],
      [url |-> BadUrl, title |-> Empty, description |-> Empty,
       categories |-> <<"website">>, tags |-> << >>,
       uploadIp |-> "10.0.0.1", uploaderId |-> Empty] }

NoLinkInput ==
    [url |-> Empty, title |-> Empty, description |-> Empty,
     categories |-> << >>, tags |-> << >>,
     uploadIp |-> Empty, uploaderId |-> Empty]

NoRecord == [_id |-> 0, doc |-> [shortCode |-> 0]]

----------------------------------------------------------------------------
(* Pure functions of the source *)

\* new URL(url): parse result and protocol
ParseUrl(url) ==
    CASE url = GoodUrl -> [ok |-> TRUE, protocol |-> "https:"]
      [] url = FtpUrl -> [ok |-> TRUE, protocol |-> "ftp:"]
      [] OTHER -> [ok |-> FALSE, protocol |-> Empty]

\* variant of validateUrl: any URL that parses is accepted
validateUrlAnyScheme(url) ==
    LET u == ParseUrl(url)
    IN  u.ok

validateUrl(url) ==
    LET u == ParseUrl(url)
    IN  IF u.ok THEN u.protocol \in {"http:", "https:"} ELSE FALSE

\* the ordered provider list built by extractLinkMetadata
ogServices(env) ==
    << IF env # Empty THEN env ELSE MicrolinkUrl, OpenGraphXyzUrl >>

\* variant of NewLinkDoc: the record is created without a metadataStatus
NewLinkDocNoStatus(input, shortCode) ==
    [ shortCode |-> shortCode,
      isLink |-> TRUE,
      uploaderId |-> input.uploaderId,
      uploadIp |-> input.uploadIp,
      categories |-> input.categories,
      tags |-> input.tags,
      linkUrl |-> input.url,
      linkTitle |-> input.title,
      linkDescription |-> input.description,
      linkThumbnail |-> Empty,
      metadataStatus |-> NoStatus,
      status |-> ACTIVE ]

\* variant of NewLinkDoc: the record is created already in PROCESSING
NewLinkDocProcessing(input, shortCode) ==
    [ shortCode |-> shortCode,
      isLink |-> TRUE,
      uploaderId |-> input.uploaderId,
      uploadIp |-> input.uploadIp,
      categories |-> input.categories,
      tags |-> input.tags,
      linkUrl |-> input.url,
      linkTitle |-> input.title,
      linkDescription |-> input.description,
      linkThumbnail |-> Empty,
      metadataStatus |-> PROCESSING,
      status |-> ACTIVE ]

\* the document uploadLink inserts (fields the pipeline reads or writes)
NewLinkDoc(input, shortCode) ==
    [ shortCode |-> shortCode,
      isLink |-> TRUE,
      uploaderId |-> input.uploaderId,
      uploadIp |-> input.uploadIp,
      categories |-> input.categories,
      tags |-> input.tags,
      linkUrl |-> input.url,
      linkTitle |-> input.title,
      linkDescription |-> input.description,
      linkThumbnail |-> Empty,
      metadataStatus |-> PENDING,
      status |-> ACTIVE ]

\* the document saveFileMetadata inserts for a binary file
NewFileDoc(shortCode) ==
    [ shortCode |-> shortCode,
      isLink |-> FALSE,
      uploaderId |-> Empty,
      uploadIp |-> "10.0.0.1",
      categories |-> << >>,
      tags |-> << >>,
      linkUrl |-> Empty,
      linkTitle |-> Empty,
      linkDescription |-> Empty,
      linkThumbnail |-> Empty,
      metadataStatus |-> NoStatus,
      status |-> ACTIVE ]

\* variant of isShortCodeExists: only link records are looked at
isShortCodeExistsLinksOnly(coll, shortCode) ==
    \E k \in DOMAIN coll : coll[k].isLink /\ coll[k].shortCode = shortCode

isShortCodeExists(coll, shortCode) ==
    \E k \in DOMAIN coll : coll[k].shortCode = shortCode

\* fetchMetadataFromService: throws on a rejected fetch or a non-2xx status,
\* otherwise returns the parsed triple
fetchMetadataFromService(serviceUrl, r) ==
    IF r.kind = "reject" \/ r.status # 200
    THEN [service |-> serviceUrl, threw |-> TRUE, meta |-> EmptyMeta]
    ELSE [service |-> serviceUrl, threw |-> FALSE, meta |-> r.body]

\* variant of HasMetadata: only a title makes a result acceptable
HasMetadataTitleOnly(meta) ==
    meta.title # Empty

\* the test of the loop body of extractLinkMetadata that accepts a result
HasMetadata(meta) ==
    meta.title # Empty \/ meta.description # Empty \/ meta.thumbnail # Empty

\* variant of ExhaustedResult: 'throw lastError' escapes extractLinkMetadata
ExhaustedResultRethrow(lastError) ==
    [threw |-> lastError, meta |-> EmptyMeta]

\* what extractLinkMetadata yields once the loop ran out of providers:
\* 'throw lastError' is caught by its own outer catch, which returns the default
ExhaustedResult(lastError) ==
    [threw |-> FALSE, meta |-> EmptyMeta]

\* variant of updateLinkMetadata: the three fields are set whatever their value
updateLinkMetadataOverwrite(rec, metadata) ==
    [rec EXCEPT
        !.linkTitle = metadata.title,
        !.linkDescription = metadata.description,
        !.linkThumbnail = metadata.thumbnail]

\* the $set of updateLinkMetadata applied to a record
updateLinkMetadata(rec, metadata) ==
    [rec EXCEPT
        !.linkTitle = IF metadata.title # Empty THEN metadata.title ELSE @,
        !.linkDescription =
            IF metadata.description # Empty THEN metadata.description ELSE @,
        !.linkThumbnail =
            IF metadata.thumbnail # Empty THEN metadata.thumbnail ELSE @]

\* variant of updateMetadataStatus: the filter also asks for a PENDING record
updateMetadataStatusIfPending(coll, linkId, status) ==
    IF linkId \in DOMAIN coll /\ coll[linkId].metadataStatus = PENDING
    THEN [coll EXCEPT ![linkId].metadataStatus = status]
    ELSE coll

\* variant of updateMetadataStatus: the filter selects every link record
updateMetadataStatusAllLinks(coll, linkId, status) ==
    [id \in DOMAIN coll |->
        IF coll[id].isLink THEN [coll[id] EXCEPT !.metadataStatus = status]
        ELSE coll[id]]

\* the $set of updateMetadataStatus applied to the collection
updateMetadataStatus(coll, linkId, status) ==
    IF linkId \in DOMAIN coll
    THEN [coll EXCEPT ![linkId].metadataStatus = status]
    ELSE coll

\* variant of AfterUpdateLinkMetadata: the rejected write is not rethrown
AfterUpdateLinkMetadataSwallow(ok) ==
    "setCompleted"

\* where extractMetadataAsync continues after 'await updateLinkMetadata'
AfterUpdateLinkMetadata(ok) ==
    IF ok THEN "setCompleted" ELSE "setFailed"

\* a freshly started extractMetadataAsync(linkId, url)
NewTask(linkId, url, origin) ==
    [ linkId |-> linkId,
      url |-> url,
      origin |-> origin,          \* upload call that dispatched it, 0 for a retry
      pc |-> "setProcessing",
      resp |-> << >>,             \* results of the provider requests so far
      lastError |-> FALSE,
      metadata |-> EmptyMeta,     \* value returned by extractLinkMetadata
      caught |-> "none",          \* what the catch block of the task caught
      raised |-> FALSE,           \* a store write of this run was rejected
      metaWritten |-> FALSE,      \* updateLinkMetadata of this run was applied
      last |-> NoStatus ]         \* last status this run persisted

----------------------------------------------------------------------------
(* Initial state *)

Init ==
    /\ files = << >>
    /\ calls = << >>
    /\ tasks = << >>
    /\ budget = [uploads |-> MaxUploads, retries |-> MaxRetries]
    /\ ogEnv \in {Empty, CustomOgUrl}

----------------------------------------------------------------------------
(* uploadLink / handleFileUpload *)

\* uploadLink is called: validateUrl, then the first draw of
\* generateUniqueShortCode up to its first await (isShortCodeExists)
UploadLink(input, c) ==
    /\ budget.uploads > 0
    /\ budget' = [budget EXCEPT !.uploads = @ - 1]
    /\ calls' = Append(calls,
          IF validateUrl(input.url)
          THEN [kind |-> "link", input |-> input, pc |-> "exists",
                shortCode |-> c, attempts |-> 1, result |-> NoRecord]
          ELSE [kind |-> "link", input |-> input, pc |-> "invalidUrl",
                shortCode |-> 0, attempts |-> 0, result |-> NoRecord])
    /\ UNCHANGED <<files, tasks, ogEnv>>

\* handleFileUpload reaches one file: first draw of generateUniqueShortCode
FileUpload(c) ==
    /\ budget.uploads > 0
    /\ budget' = [budget EXCEPT !.uploads = @ - 1]
    /\ calls' = Append(calls,
          [kind |-> "file", input |-> NoLinkInput, pc |-> "exists",
           shortCode |-> c, attempts |-> 1, result |-> NoRecord])
    /\ UNCHANGED <<files, tasks, ogEnv>>

\* generateUniqueShortCode: the existence check of the current draw resolves.
\* A stored code is redrawn (c is the next draw); a free one ends the loop and
\* the caller goes on to its insertOne.
ShortCodeChecked(u, c) ==
    /\ u \in DOMAIN calls
    /\ calls[u].pc = "exists"
    /\ IF isShortCodeExists(files, calls[u].shortCode)
       THEN /\ calls[u].attempts < MaxDraws
            /\ calls' = [calls EXCEPT
                  ![u].attempts = @ + 1,
                  ![u].shortCode = IF calls[u].attempts + 1 > maxAttempts THEN 0 ELSE c,
                  ![u].pc = IF calls[u].attempts + 1 > maxAttempts
                            THEN "exhausted" ELSE "exists"]
       ELSE /\ c = calls[u].shortCode
            /\ calls' = [calls EXCEPT ![u].pc = "insert"]
    /\ UNCHANGED <<files, tasks, budget, ogEnv>>

\* insertOne resolves. For a link, the rest of uploadLink runs without another
\* await: the enrichment task is started (not awaited) and the record returned.
Inserted(u) ==
    /\ u \in DOMAIN calls
    /\ calls[u].pc = "insert"
    /\ LET id == Len(files) + 1
           doc == IF calls[u].kind = "link"
                  THEN NewLinkDoc(calls[u].input, calls[u].shortCode)
                  ELSE NewFileDoc(calls[u].shortCode)
       IN  /\ files' = Append(files, doc)
           /\ calls' = [calls EXCEPT
                 ![u].pc = "done",
                 ![u].result = [_id |-> id, doc |-> doc]]
           /\ tasks' = IF calls[u].kind = "link"
                       THEN Append(tasks, NewTask(id, calls[u].input.url, u))
                       ELSE tasks
    /\ UNCHANGED <<budget, ogEnv>>

\* insertOne rejects: the call throws, nothing is stored or dispatched
InsertFailed(u) ==
    /\ u \in DOMAIN calls
    /\ calls[u].pc = "insert"
    /\ calls' = [calls EXCEPT ![u].pc = "storeError"]
    /\ UNCHANGED <<files, tasks, budget, ogEnv>>

----------------------------------------------------------------------------
(* retryMetadataExtraction *)

\* variant of RetryTarget: any stored record is taken for a link
RetryTargetAnyRecord(coll, linkId) ==
    linkId \in DOMAIN coll

\* findOne({_id, isLink: true}) found a record and it has a linkUrl
RetryTarget(coll, linkId) ==
    /\ linkId \in DOMAIN coll
    /\ coll[linkId].isLink
    /\ coll[linkId].linkUrl # Empty

\* a missing or non-link record throws, otherwise a new extractMetadataAsync
\* is started (not awaited) whatever the status is. The call is recorded with
\* the metadataStatus it found and the task it started.
RetryMetadataExtraction(linkId) ==
    /\ budget.retries > 0
    /\ budget' = [budget EXCEPT !.retries = @ - 1]
    /\ calls' = Append(calls,
          [kind |-> "retry", input |-> NoLinkInput,
           pc |-> IF RetryTarget(files, linkId) THEN "started" ELSE "notFound",
           shortCode |-> 0, attempts |-> 0, result |-> NoRecord,
           linkId |-> linkId,
           was |-> IF linkId \in DOMAIN files
                   THEN files[linkId].metadataStatus ELSE NoStatus,
           task |-> IF RetryTarget(files, linkId) THEN Len(tasks) + 1 ELSE 0])
    /\ tasks' = IF RetryTarget(files, linkId)
                THEN Append(tasks, NewTask(linkId, files[linkId].linkUrl, 0))
                ELSE tasks
    /\ UNCHANGED <<files, ogEnv>>

----------------------------------------------------------------------------
(* getMetadataStatus *)

\* calls of one kind made so far
CallsOfKind(kind) == {u \in DOMAIN calls : calls[u].kind = kind}

\* variant of getMetadataStatus: the stored fields are returned in any status
getMetadataStatusAnyStatus(coll, linkId) ==
    IF linkId \in DOMAIN coll /\ coll[linkId].isLink
    THEN LET link == coll[linkId]
             status == IF link.metadataStatus = NoStatus
                       THEN PENDING ELSE link.metadataStatus
         IN  [threw |-> FALSE, status |-> status,
              hasMetadata |-> TRUE,
              metadata |-> [title |-> link.linkTitle,
                            description |-> link.linkDescription,
                            thumbnail |-> link.linkThumbnail]]
    ELSE [threw |-> TRUE, status |-> NoStatus,
          hasMetadata |-> FALSE, metadata |-> EmptyMeta]

\* findOne({_id, isLink: true}); no record throws; status defaults to PENDING;
\* the key 'metadata' is set only when the status is COMPLETED
getMetadataStatus(coll, linkId) ==
    IF linkId \in DOMAIN coll /\ coll[linkId].isLink
    THEN LET link == coll[linkId]
             status == IF link.metadataStatus = NoStatus
                       THEN PENDING ELSE link.metadataStatus
         IN  [threw |-> FALSE, status |-> status,
              hasMetadata |-> status = COMPLETED,
              metadata |-> IF status = COMPLETED
                           THEN [title |-> link.linkTitle,
                                 description |-> link.linkDescription,
                                 thumbnail |-> link.linkThumbnail]
                           ELSE EmptyMeta]
    ELSE [threw |-> TRUE, status |-> NoStatus,
          hasMetadata |-> FALSE, metadata |-> EmptyMeta]

\* a status poll: the findOne resolves and the answer is built in the same
\* turn. The call is recorded with the record it read.
GetMetadataStatus(linkId) ==
    /\ Cardinality(CallsOfKind("status")) < MaxPolls
    /\ calls' = Append(calls,
          [kind |-> "status", input |-> NoLinkInput, pc |-> "done",
           shortCode |-> 0, attempts |-> 0, result |-> NoRecord,
           linkId |-> linkId,
           rec |-> IF linkId \in DOMAIN files
                   THEN files[linkId] ELSE NewFileDoc(0),
           answer |-> getMetadataStatus(files, linkId)])
    /\ UNCHANGED <<files, tasks, budget, ogEnv>>

----------------------------------------------------------------------------
(* extractMetadataAsync, one action per await *)

InFlight(t) == t \in DOMAIN tasks /\ tasks[t].pc # "done"

\* await updateMetadataStatus(linkId, PROCESSING); a rejected updateOne is
\* logged and swallowed by updateMetadataStatus. The first provider request
\* is issued in the same turn.
SetProcessing(t, ok) ==
    /\ InFlight(t)
    /\ tasks[t].pc = "setProcessing"
    /\ files' = IF ok THEN updateMetadataStatus(files, tasks[t].linkId, PROCESSING)
                ELSE files
    /\ tasks' = [tasks EXCEPT
          ![t].pc = "fetch",
          ![t].last = IF ok THEN PROCESSING ELSE @,
          ![t].raised = IF ok THEN @ ELSE TRUE]
    /\ UNCHANGED <<calls, budget, ogEnv>>

\* the outstanding provider request of the loop of extractLinkMetadata ends
\* with r. An accepted result is returned at once; otherwise the next provider
\* is requested, or the loop is exhausted.
ProviderAnswered(t, r) ==
    /\ InFlight(t)
    /\ tasks[t].pc = "fetch"
    /\ LET services == ogServices(ogEnv)
           i == Len(tasks[t].resp) + 1
           out == fetchMetadataFromService(services[i], r)
           accepted == ~out.threw /\ HasMetadata(out.meta)
           lastError == tasks[t].lastError \/ out.threw
           exhausted == ExhaustedResult(lastError)
       IN  tasks' = [tasks EXCEPT
              ![t].resp = Append(@, out),
              ![t].lastError = lastError,
              ![t].metadata = IF accepted THEN out.meta
                              ELSE IF i < Len(services) THEN @
                              ELSE exhausted.meta,
              ![t].caught = IF ~accepted /\ i >= Len(services) /\ exhausted.threw
                            THEN "extractLinkMetadata" ELSE @,
              ![t].pc = IF accepted THEN "updateMeta"
                        ELSE IF i < Len(services) THEN "fetch"
                        ELSE IF exhausted.threw THEN "setFailed"
                        ELSE "updateMeta"]
    /\ UNCHANGED <<files, calls, budget, ogEnv>>

\* await updateLinkMetadata(linkId, metadata); a rejected updateOne is rethrown
\* and lands in the catch block of extractMetadataAsync
UpdateLinkMetadata(t, ok) ==
    /\ InFlight(t)
    /\ tasks[t].pc = "updateMeta"
    /\ files' = IF ok /\ tasks[t].linkId \in DOMAIN files
                THEN [files EXCEPT ![tasks[t].linkId] =
                          updateLinkMetadata(@, tasks[t].metadata)]
                ELSE files
    /\ tasks' = [tasks EXCEPT
          ![t].pc = AfterUpdateLinkMetadata(ok),
          ![t].metaWritten = ok,
          ![t].raised = IF ok THEN @ ELSE TRUE,
          ![t].caught = IF AfterUpdateLinkMetadata(ok) = "setFailed"
                        THEN "updateLinkMetadata" ELSE @]
    /\ UNCHANGED <<calls, budget, ogEnv>>

\* await updateMetadataStatus(linkId, COMPLETED), the last statement of the try
SetCompleted(t, ok) ==
    /\ InFlight(t)
    /\ tasks[t].pc = "setCompleted"
    /\ files' = IF ok THEN updateMetadataStatus(files, tasks[t].linkId, COMPLETED)
                ELSE files
    /\ tasks' = [tasks EXCEPT
          ![t].pc = "done",
          ![t].last = IF ok THEN COMPLETED ELSE @,
          ![t].raised = IF ok THEN @ ELSE TRUE]
    /\ UNCHANGED <<calls, budget, ogEnv>>

\* await updateMetadataStatus(linkId, FAILED), the catch block
SetFailed(t, ok) ==
    /\ InFlight(t)
    /\ tasks[t].pc = "setFailed"
    /\ files' = IF ok THEN updateMetadataStatus(files, tasks[t].linkId, FAILED)
                ELSE files
    /\ tasks' = [tasks EXCEPT
          ![t].pc = "done",
          ![t].last = IF ok THEN FAILED ELSE @,
          ![t].raised = IF ok THEN @ ELSE TRUE]
    /\ UNCHANGED <<calls, budget, ogEnv>>

----------------------------------------------------------------------------
(* LinkController.uploadLinks and LinkUploadService.uploadLinks *)

\* response and error messages (the source texts are Chinese)
MsgNoUrlList == "please provide the URL list"
MsgNoCategory == "please provide at least one category"
MsgMissingUrl == "some URLs lack the url field"
MsgLinkUploaded == "link uploaded"
MsgAllUploaded == "all links uploaded"
MsgPartialFailure == "some links failed to upload"
ErrInvalidUrl == "invalid URL format"
ErrNoShortCode == "cannot generate a unique short code"
ErrStore == "store error"

SeqsUpTo(S, n) == UNION { [1..k -> S] : k \in 0..n }

\* items of req.body.urls: a usable url, a malformed one, or no url field;
\* an item can bring categories and tags of its own (<< >> when it has none)
UrlItems ==
    { [url |-> GoodUrl, categories |-> << >>, tags |-> << >>],
      [url |-> BadUrl, categories |-> << >>, tags |-> << >>],
      [url |-> Empty, categories |-> << >>, tags |-> << >>],
      [url |-> GoodUrl, categories |-> <<"website">>, tags |-> <<"t">>] }

\* req.body: urls and categories are arrays, or absent / not arrays; tags is
\* an array or absent (<< >>)
Bodies ==
    { [urls |-> [isArray |-> TRUE, items |-> s],
       categories |-> [isArray |-> TRUE, items |-> cs],
       tags |-> ts] :
          s \in SeqsUpTo(UrlItems, MaxBatch), cs \in {<< >>, <<"website">>},
          ts \in {<< >>, <<"g">>} }
    \cup { [urls |-> [isArray |-> FALSE, items |-> << >>],
            categories |-> [isArray |-> TRUE, items |-> <<"website">>],
            tags |-> << >>],
           [urls |-> [isArray |-> TRUE,
                      items |-> <<[url |-> GoodUrl, categories |-> << >>,
                                   tags |-> << >>]>>],
            categories |-> [isArray |-> FALSE, items |-> << >>],
            tags |-> << >>] }

\* 'this' inside a static handler: the router registers uploadLinks,
\* getLinks and searchLinks as plain function values, so a routed request
\* runs them with this undefined; a direct call LinkController.uploadLinks(
\* req, res, next) runs them with this = LinkController
Receivers == {"LinkController", "undefined"}

\* the TypeError of reading a property of undefined
ErrThisUndefined == "TypeError: cannot read properties of undefined"

NoResponse ==
    [status |-> 0, success |-> FALSE, message |-> Empty, shape |-> "none",
     files |-> << >>, data |-> << >>, total |-> 0, errors |-> << >>,
     next |-> Empty]

\* the keys of the object createSafeLink returns
SafeFields ==
    {"_id", "shortCode", "originalName", "mimeType", "size", "filename",
     "uploaderId", "status", "categories", "tags", "description",
     "uploadedAt", "updatedAt", "isLink", "linkUrl", "linkTitle",
     "linkDescription", "linkThumbnail"}

\* variant of createSafeLink: the stored document is passed on with its _id
createSafeLinkAllFields(link) ==
    [f \in {"_id"} \cup DOMAIN link.doc |->
        IF f = "_id" THEN link._id ELSE link.doc[f]]

\* createSafeLink, on the fields the model's records have
createSafeLink(link) ==
    [_id |-> link._id,
     shortCode |-> link.doc.shortCode,
     uploaderId |-> link.doc.uploaderId,
     status |-> link.doc.status,
     categories |-> link.doc.categories,
     tags |-> link.doc.tags,
     isLink |-> link.doc.isLink,
     linkUrl |-> link.doc.linkUrl,
     linkTitle |-> link.doc.linkTitle,
     linkDescription |-> link.doc.linkDescription,
     linkThumbnail |-> link.doc.linkThumbnail]

\* result.files.map(createSafeLink)
SafeLinks(records) ==
    [k \in DOMAIN records |-> createSafeLink(records[k])]

\* the three checks of the controller, in their order
ValidateRequest(body) ==
    IF ~body.urls.isArray \/ Len(body.urls.items) = 0 THEN MsgNoUrlList
    ELSE IF ~body.categories.isArray \/ Len(body.categories.items) = 0
         THEN MsgNoCategory
    ELSE IF \E k \in DOMAIN body.urls.items : body.urls.items[k].url = Empty
         THEN MsgMissingUrl
    ELSE "ok"

\* this.getClientIp(req) throws a TypeError when this is undefined
ThisGetClientIpThrows(receiver) == receiver = "undefined"

\* the checks that log this.getClientIp(req) before they answer
LogsClientIp(verdict) == verdict \in {MsgNoUrlList, MsgNoCategory}

\* res.status(400).json({success: false, message})
BadRequest(message) ==
    [NoResponse EXCEPT !.status = 400, !.message = message, !.shape = "error"]

\* the catch block of the controller: next(error), no response is written
NextError(error) ==
    [NoResponse EXCEPT !.next = error]

\* the response built from the service result: one safe file gives the
\* single-link format (data is the link, there is no total or errors key),
\* any other number the list format
uploadLinksResponse(result) ==
    IF Len(result.files) = 1
    THEN [NoResponse EXCEPT !.status = 201, !.success = TRUE,
             !.message = MsgLinkUploaded, !.shape = "link",
             !.files = result.files, !.data = SafeLinks(result.records)]
    ELSE [NoResponse EXCEPT !.status = 201, !.success = result.success,
             !.message = IF result.success THEN MsgAllUploaded
                         ELSE MsgPartialFailure,
             !.shape = "list", !.files = result.files,
             !.data = SafeLinks(result.records),
             !.total = Len(result.files), !.errors = result.errors]

\* an item of linksData: the item's own categories and tags, no uploader
LinkDataOf(item) ==
    [url |-> item.url, title |-> Empty, description |-> Empty,
     categories |-> item.categories, tags |-> item.tags,
     uploadIp |-> "10.0.0.1", uploaderId |-> Empty]

\* variant of SingleLinkInput: the item's own lists come first
SingleLinkInputItemFirst(body, linkData) ==
    [linkData EXCEPT
        !.categories = linkData.categories \o body.categories.items,
        !.tags = linkData.tags \o body.tags]

\* the argument of uploadLink on the single-URL path of the controller:
\* [...categories, ...linksData[0].categories], [...tags, ...linksData[0].tags]
SingleLinkInput(body, linkData) ==
    [linkData EXCEPT
        !.categories = body.categories.items \o linkData.categories,
        !.tags = body.tags \o linkData.tags]

\* batchData of the controller
BatchDataOf(body) ==
    [links |-> [k \in DOMAIN body.urls.items |-> LinkDataOf(body.urls.items[k])],
     categories |-> body.categories.items,
     tags |-> body.tags]

\* enrichedLinkData of the batch service:
\* [...batchData.categories, ...linkData.categories], the same for tags
EnrichedLinkData(batchData, linkData) ==
    [linkData EXCEPT
        !.categories = batchData.categories \o linkData.categories,
        !.tags = batchData.tags \o linkData.tags]

\* the argument of the uploadLink call made for item k of a request
ItemInput(body, k) ==
    IF Len(body.urls.items) = 1
    THEN SingleLinkInput(body, LinkDataOf(body.urls.items[1]))
    ELSE EnrichedLinkData(BatchDataOf(body), BatchDataOf(body).links[k])

\* uploadLink entered with input: validateUrl, then the first draw of
\* generateUniqueShortCode up to its first await
uploadLinkCall(input, c) ==
    IF validateUrl(input.url)
    THEN [kind |-> "link", input |-> input, pc |-> "exists",
          shortCode |-> c, attempts |-> 1, result |-> NoRecord]
    ELSE [kind |-> "link", input |-> input, pc |-> "invalidUrl",
          shortCode |-> 0, attempts |-> 0, result |-> NoRecord]

\* pcs of an uploadLink call that returned or threw
EndedPcs == {"done", "invalidUrl", "storeError", "exhausted"}

\* message of the Error an uploadLink call threw
ErrorOf(pc) ==
    CASE pc = "invalidUrl" -> ErrInvalidUrl
      [] pc = "exhausted" -> ErrNoShortCode
      [] OTHER -> ErrStore

\* variant of CollectItem: a failed item is logged but not recorded
CollectItemDropError(acc, url, child) ==
    IF child.pc = "done"
    THEN [acc EXCEPT !.files = Append(@, child.result._id),
                     !.records = Append(@, child.result)]
    ELSE acc

\* the loop body of uploadLinks after 'await uploadLink': results.push(file),
\* or the catch that pushes {url: linkData.url, error}
CollectItem(acc, url, child) ==
    IF child.pc = "done"
    THEN [acc EXCEPT !.files = Append(@, child.result._id),
                     !.records = Append(@, child.result)]
    ELSE [acc EXCEPT !.errors =
             Append(@, [url |-> url, error |-> ErrorOf(child.pc)])]

\* POST /upload arrives: validation, then the service is called and runs up
\* to its first await (inside the uploadLink of the first item)
UploadLinksRequest(body, receiver, c) ==
    /\ Cardinality(CallsOfKind("request")) < MaxRequests
    /\ LET verdict == ValidateRequest(body)
           req == [kind |-> "request", input |-> NoLinkInput, pc |-> "await",
                   shortCode |-> 0, attempts |-> 0, result |-> NoRecord,
                   body |-> body, receiver |-> receiver,
                   service |-> "none", children |-> << >>,
                   acc |-> [files |-> << >>, records |-> << >>,
                            errors |-> << >>],
                   response |-> NoResponse]
       IN  IF verdict # "ok"
           THEN calls' = Append(calls,
                   [req EXCEPT !.pc = "responded",
                               !.response =
                                   IF LogsClientIp(verdict)
                                      /\ ThisGetClientIpThrows(receiver)
                                   THEN NextError(ErrThisUndefined)
                                   ELSE BadRequest(verdict)])
           ELSE calls' = calls \o
                   << [req EXCEPT
                         !.service = IF Len(body.urls.items) = 1
                                     THEN "uploadLink" ELSE "uploadLinks",
                         !.children = << Len(calls) + 2 >>],
                      uploadLinkCall(ItemInput(body, 1), c) >>
    /\ UNCHANGED <<files, tasks, budget, ogEnv>>

\* the uploadLink the request is waiting for has returned or thrown.
\* Single upload: the controller answers, or hands the error to next.
\* Batch: uploadLinks records the outcome and enters the uploadLink of the
\* next item, or returns and the controller answers.
ItemEnded(r, c) ==
    /\ r \in DOMAIN calls
    /\ calls[r].kind = "request"
    /\ calls[r].pc = "await"
    /\ LET k == Len(calls[r].children)
           child == calls[calls[r].children[k]]
           items == calls[r].body.urls.items
           acc == CollectItem(calls[r].acc, items[k].url, child)
       IN  /\ child.pc \in EndedPcs
           /\ IF calls[r].service = "uploadLink"
              THEN calls' = [calls EXCEPT
                      ![r].pc = "responded",
                      ![r].response =
                          IF child.pc = "done"
                          THEN uploadLinksResponse(
                                  [success |-> TRUE,
                                   files |-> << child.result._id >>,
                                   records |-> << child.result >>,
                                   errors |-> << >>])
                          ELSE NextError(ErrorOf(child.pc))]
              ELSE IF k < Len(items)
              THEN calls' = Append(
                      [calls EXCEPT ![r].acc = acc,
                                    ![r].children = Append(@, Len(calls) + 1)],
                      uploadLinkCall(ItemInput(calls[r].body, k + 1), c))
              ELSE calls' = [calls EXCEPT
                      ![r].acc = acc,
                      ![r].pc = "responded",
                      ![r].response = uploadLinksResponse(
                          [success |-> acc.errors = << >>,
                           files |-> acc.files,
                           records |-> acc.records,
                           errors |-> acc.errors])]
    /\ UNCHANGED <<files, tasks, budget, ogEnv>>

----------------------------------------------------------------------------
(* ShortCodeService.generateMultipleShortCodes *)

\* variant of AttemptsExhausted: one more draw is allowed
AttemptsExhaustedOneLate(attempts) ==
    attempts > maxAttempts + 1

\* 'if (attempts > maxAttempts) throw', tested after each draw
AttemptsExhausted(attempts) ==
    attempts > maxAttempts

\* generateMultipleShortCodes(count) is called and runs up to the first
\* existence check of its first generateUniqueShortCode (c is the draw)
GenerateMultipleShortCodes(count, c) ==
    /\ CallsOfKind("multi") = {}
    /\ calls' = Append(calls,
          [kind |-> "multi", input |-> NoLinkInput,
           pc |-> IF count = 0 THEN "done" ELSE "check",
           shortCode |-> IF count = 0 THEN 0 ELSE c,
           attempts |-> IF count = 0 THEN 0 ELSE 1,
           result |-> NoRecord,
           count |-> count, shortCodes |-> << >>])
    /\ UNCHANGED <<files, tasks, budget, ogEnv>>

\* the existence check of the current draw resolves. A stored code is
\* redrawn, and the draw after maxAttempts draws throws; a free code is
\* returned and pushed, and the next generateUniqueShortCode starts with a
\* new draw c, or the array is returned. Nothing is inserted in between.
MultiShortCodeChecked(u, c) ==
    /\ u \in DOMAIN calls
    /\ calls[u].kind = "multi"
    /\ calls[u].pc = "check"
    /\ IF isShortCodeExists(files, calls[u].shortCode)
       THEN calls' = [calls EXCEPT
               ![u].attempts = @ + 1,
               ![u].shortCode = IF AttemptsExhausted(calls[u].attempts + 1)
                                THEN 0 ELSE c,
               ![u].pc = IF AttemptsExhausted(calls[u].attempts + 1)
                         THEN "exhausted" ELSE "check"]
       ELSE LET codes == Append(calls[u].shortCodes, calls[u].shortCode)
            IN  IF Len(codes) < calls[u].count
                THEN calls' = [calls EXCEPT
                        ![u].shortCodes = codes,
                        ![u].shortCode = c,
                        ![u].attempts = 1]
                ELSE calls' = [calls EXCEPT
                        ![u].shortCodes = codes,
                        ![u].pc = "done"]
    /\ UNCHANGED <<files, tasks, budget, ogEnv>>

----------------------------------------------------------------------------
(* ShortCodeService.generateShortCode and validateShortCode *)

codeLength == 6      \* the loop bound of generateShortCode

UpperLetters ==
    {"A", "B", "C", "D", "E", "F", "G", "H", "I", "J", "K", "L", "M",
     "N", "O", "P", "Q", "R", "S", "T", "U", "V", "W", "X", "Y", "Z"}

Digits == {"0", "1", "2", "3", "4", "5", "6", "7", "8", "9"}

\* variant of chars: the alphabet with the letter O
charsWithO ==
    << "A", "B", "C", "D", "E", "F", "G", "H", "I", "J", "K", "L", "M",
       "N", "O", "P", "Q", "R", "S", "T", "U", "V", "W", "X", "Y", "Z",
       "1", "2", "3", "4", "5", "6", "7", "8", "9" >>

\* the string the characters are taken from, as its sequence of characters
chars ==
    << "A", "B", "C", "D", "E", "F", "G", "H", "I", "J", "K", "L", "M",
       "N", "P", "Q", "R", "S", "T", "U", "V", "W", "X", "Y", "Z",
       "1", "2", "3", "4", "5", "6", "7", "8", "9" >>

\* String.charAt with a 0-based index
charAt(str, i) == str[i + 1]

\* values of Math.floor(Math.random() * chars.length) the model explores:
\* the first and last letter, the letters next to the place of O, the first
\* and last digit (all of them below 34 = chars.length)
DrawIndices == {0, 13, 14, 24, 25, 33}

\* generateShortCode with idx[i] the random index of iteration i
generateShortCode(idx) ==
    [i \in 1..codeLength |-> charAt(chars, idx[i])]

\* /^[A-Z0-9]{6}$/.test(shortCode)
validateShortCode(shortCode) ==
    /\ Len(shortCode) = 6
    /\ \A i \in DOMAIN shortCode : shortCode[i] \in UpperLetters \cup Digits

\* one draw of the allocator: generateShortCode runs to its return
GenerateShortCode(idx) ==
    /\ CallsOfKind("draw") = {}
    /\ calls' = Append(calls,
          [kind |-> "draw", input |-> NoLinkInput, pc |-> "done",
           shortCode |-> 0, attempts |-> 1, result |-> NoRecord,
           code |-> generateShortCode(idx)])
    /\ UNCHANGED <<files, tasks, budget, ogEnv>>

----------------------------------------------------------------------------
(* FileService.deleteFile, LinkUploadService.searchLinks and getUserLinks *)

\* search strings and uploader ids the readers are called with
Queries == {Empty, "a.com", "t1"}
UploaderIds == {"user1"}

\* { $regex: query, $options: 'i' } on the texts that occur in the model
RegexMatches(text, query) ==
    IF query = Empty THEN text # Empty
    ELSE <<text, query>> \in { <<GoodUrl, "a.com">>, <<"T1", "t1">> }

\* variant of SearchFilter: the lifecycle status is not tested
SearchFilterAnyStatus(rec, query) ==
    /\ rec.isLink
    /\ \/ RegexMatches(rec.linkUrl, query)
       \/ RegexMatches(rec.linkTitle, query)
       \/ RegexMatches(rec.linkDescription, query)
       \/ \E k \in DOMAIN rec.tags : RegexMatches(rec.tags[k], query)

\* the filter of searchLinks
SearchFilter(rec, query) ==
    /\ rec.isLink
    /\ rec.status # DELETED
    /\ \/ RegexMatches(rec.linkUrl, query)
       \/ RegexMatches(rec.linkTitle, query)
       \/ RegexMatches(rec.linkDescription, query)
       \/ \E k \in DOMAIN rec.tags : RegexMatches(rec.tags[k], query)

\* the filter of getUserLinks
UserLinksFilter(rec, uploaderId) ==
    /\ rec.uploaderId = uploaderId
    /\ rec.isLink
    /\ rec.status # DELETED

\* find(filter).sort({uploadedAt: -1}).toArray() on the first page: the
\* selected records of the first n, newest first, as [_id, doc]
RECURSIVE FindNewestFirst(_, _, _)
FindNewestFirst(coll, selected, n) ==
    IF n = 0 THEN << >>
    ELSE IF n \in selected
         THEN << [_id |-> n, doc |-> coll[n]] >>
                  \o FindNewestFirst(coll, selected, n - 1)
         ELSE FindNewestFirst(coll, selected, n - 1)

\* ids of the stored records whose lifecycle status is DELETED
DeletedIds == {id \in DOMAIN files : files[id].status = DELETED}

\* the in-flight enrichment task of a record, 0 if none
InFlightTaskOf(id) ==
    IF \E t \in DOMAIN tasks : InFlight(t) /\ tasks[t].linkId = id
    THEN CHOOSE t \in DOMAIN tasks : InFlight(t) /\ tasks[t].linkId = id
    ELSE 0

\* deleteFile: updateOne({_id}, {$set: {status: DELETED}}) is applied. The
\* call is recorded with the position of the record's enrichment run.
DeleteFile(fileId) ==
    /\ Cardinality(CallsOfKind("delete")) < MaxDeletes
    /\ fileId \in DOMAIN files
    /\ files' = [files EXCEPT ![fileId].status = DELETED]
    /\ calls' = Append(calls,
          [kind |-> "delete", input |-> NoLinkInput, pc |-> "done",
           shortCode |-> 0, attempts |-> 0, result |-> NoRecord,
           fileId |-> fileId,
           runPc |-> IF InFlightTaskOf(fileId) = 0 THEN "none"
                     ELSE tasks[InFlightTaskOf(fileId)].pc])
    /\ UNCHANGED <<tasks, budget, ogEnv>>

\* searchLinks(query): the find resolves and the links are returned
SearchLinks(query) ==
    /\ Cardinality(CallsOfKind("search") \cup CallsOfKind("list")) < MaxQueries
    /\ LET selected == {id \in DOMAIN files : SearchFilter(files[id], query)}
       IN  calls' = Append(calls,
              [kind |-> "search", input |-> NoLinkInput, pc |-> "done",
               shortCode |-> 0, attempts |-> 0, result |-> NoRecord,
               query |-> query,
               deleted |-> DeletedIds,
               links |-> FindNewestFirst(files, selected, Len(files))])
    /\ UNCHANGED <<files, tasks, budget, ogEnv>>

\* getUserLinks(uploaderId): the find resolves and the links are returned
GetUserLinks(uploaderId) ==
    /\ Cardinality(CallsOfKind("search") \cup CallsOfKind("list")) < MaxQueries
    /\ LET selected == {id \in DOMAIN files :
                           UserLinksFilter(files[id], uploaderId)}
       IN  calls' = Append(calls,
              [kind |-> "list", input |-> NoLinkInput, pc |-> "done",
               shortCode |-> 0, attempts |-> 0, result |-> NoRecord,
               query |-> uploaderId,
               deleted |-> DeletedIds,
               links |-> FindNewestFirst(files, selected, Len(files))])
    /\ UNCHANGED <<files, tasks, budget, ogEnv>>

----------------------------------------------------------------------------
(* LinkController.getLinks and LinkController.searchLinks *)

MsgInvalidUserId == "invalid user id"
MsgNoKeyword == "please provide a search keyword"

\* req.query.uploaderId of GET /: absent, not an ObjectId, an ObjectId
UploaderIdParams == {Empty, "oops", "user1"}

\* ObjectId.isValid on the values of the model
ObjectIdIsValid(id) == id = "user1"

\* res.json({success: true, data: safeLinks, pagination})
PageResponse(links) ==
    [NoResponse EXCEPT !.status = 200, !.success = TRUE, !.shape = "page",
        !.data = SafeLinks(links), !.total = Len(links)]

\* the links a reader of the service finds now
FoundBySearch(query) ==
    FindNewestFirst(files,
        {id \in DOMAIN files : SearchFilter(files[id], query)}, Len(files))

FoundByUser(uploaderId) ==
    FindNewestFirst(files,
        {id \in DOMAIN files : UserLinksFilter(files[id], uploaderId)},
        Len(files))

\* calls of the two read handlers made so far
ReadRequests == CallsOfKind("getLinks") \cup CallsOfKind("searchLinks")

\* GET /: the handler logs this.getClientIp(req) first; without uploaderId
\* it answers searchLinks(''), with a malformed one 400, otherwise
\* getUserLinks(uploaderId); the links go through createSafeLink
GetLinksRequest(uploaderId, receiver) ==
    /\ Cardinality(ReadRequests) < MaxQueries
    /\ calls' = Append(calls,
          [kind |-> "getLinks", input |-> NoLinkInput, pc |-> "responded",
           shortCode |-> 0, attempts |-> 0, result |-> NoRecord,
           receiver |-> receiver, query |-> uploaderId,
           response |->
               IF ThisGetClientIpThrows(receiver)
               THEN NextError(ErrThisUndefined)
               ELSE IF uploaderId = Empty
               THEN PageResponse(FoundBySearch(Empty))
               ELSE IF ~ObjectIdIsValid(uploaderId)
               THEN BadRequest(MsgInvalidUserId)
               ELSE PageResponse(FoundByUser(uploaderId))])
    /\ UNCHANGED <<files, tasks, budget, ogEnv>>

\* GET /search: a missing keyword is answered with 400; then the handler
\* logs this.getClientIp(req), calls searchLinks(q) and answers the links
\* through createSafeLink
SearchLinksRequest(q, receiver) ==
    /\ Cardinality(ReadRequests) < MaxQueries
    /\ calls' = Append(calls,
          [kind |-> "searchLinks", input |-> NoLinkInput, pc |-> "responded",
           shortCode |-> 0, attempts |-> 0, result |-> NoRecord,
           receiver |-> receiver, query |-> q,
           response |->
               IF q = Empty
               THEN BadRequest(MsgNoKeyword)
               ELSE IF ThisGetClientIpThrows(receiver)
               THEN NextError(ErrThisUndefined)
               ELSE PageResponse(FoundBySearch(q))])
    /\ UNCHANGED <<files, tasks, budget, ogEnv>>

----------------------------------------------------------------------------
(* Specification *)

RecordIds == 1..(Len(files) + 1)     \* the stored ids and one that matches nothing

Next ==
    \/ \E input \in LinkInputs, c \in Codes : UploadLink(input, c)
    \/ \E c \in Codes : FileUpload(c)
    \/ \E u \in DOMAIN calls, c \in Codes : ShortCodeChecked(u, c)
    \/ \E u \in DOMAIN calls : Inserted(u)
    \/ \E u \in DOMAIN calls : InsertFailed(u)
    \/ \E linkId \in RecordIds : RetryMetadataExtraction(linkId)
    \/ \E t \in DOMAIN tasks, ok \in BOOLEAN : SetProcessing(t, ok)
    \/ \E t \in DOMAIN tasks, r \in Responses : ProviderAnswered(t, r)
    \/ \E t \in DOMAIN tasks, ok \in BOOLEAN : UpdateLinkMetadata(t, ok)
    \/ \E t \in DOMAIN tasks, ok \in BOOLEAN : SetCompleted(t, ok)
    \/ \E t \in DOMAIN tasks, ok \in BOOLEAN : SetFailed(t, ok)

\* one upload and one retry, with the enrichment tasks they start
Spec == Init /\ [][Next]_vars

\* concurrent uploads: the allocate-then-insert sequences of several upload
\* calls interleaved (their enrichment tasks are started but not scheduled)
InitRace ==
    /\ files = << >>
    /\ calls = << >>
    /\ tasks = << >>
    /\ budget = [uploads |-> RaceUploads, retries |-> 0]
    /\ ogEnv = Empty

NextRace ==
    \/ \E input \in LinkInputs, c \in Codes : UploadLink(input, c)
    \/ \E c \in Codes : FileUpload(c)
    \/ \E u \in DOMAIN calls, c \in Codes : ShortCodeChecked(u, c)
    \/ \E u \in DOMAIN calls : Inserted(u)
    \/ \E u \in DOMAIN calls : InsertFailed(u)

SpecRace == InitRace /\ [][NextRace]_vars

\* repeated retries: the store holds one link record whose enrichment ended
\* in FAILED; retryMetadataExtraction is called up to MaxRepeats times and
\* the runs it starts are scheduled
FailedLinkDoc ==
    [NewLinkDoc([url |-> GoodUrl, title |-> Empty, description |-> Empty,
                 categories |-> <<"website">>, tags |-> << >>,
                 uploadIp |-> "10.0.0.1", uploaderId |-> Empty], 1)
        EXCEPT !.metadataStatus = FAILED]

InitRetry ==
    /\ files = << FailedLinkDoc >>
    /\ calls = << >>
    /\ tasks = << >>
    /\ budget = [uploads |-> 0, retries |-> MaxRepeats]
    /\ ogEnv = Empty

NextRetry ==
    \/ \E linkId \in RecordIds : RetryMetadataExtraction(linkId)
    \/ \E t \in DOMAIN tasks, ok \in BOOLEAN : SetProcessing(t, ok)
    \/ \E t \in DOMAIN tasks, r \in Responses : ProviderAnswered(t, r)
    \/ \E t \in DOMAIN tasks, ok \in BOOLEAN : UpdateLinkMetadata(t, ok)
    \/ \E t \in DOMAIN tasks, ok \in BOOLEAN : SetCompleted(t, ok)
    \/ \E t \in DOMAIN tasks, ok \in BOOLEAN : SetFailed(t, ok)

SpecRetry == InitRetry /\ [][NextRetry]_vars

\* status polling: one upload, the enrichment run it starts, and
\* getMetadataStatus called at any moment
InitStatus ==
    /\ files = << >>
    /\ calls = << >>
    /\ tasks = << >>
    /\ budget = [uploads |-> MaxUploads, retries |-> 0]
    /\ ogEnv = Empty

NextStatus ==
    \/ \E input \in LinkInputs, c \in Codes : UploadLink(input, c)
    \/ \E c \in Codes : FileUpload(c)
    \/ \E u \in DOMAIN calls, c \in Codes : ShortCodeChecked(u, c)
    \/ \E u \in DOMAIN calls : Inserted(u)
    \/ \E u \in DOMAIN calls : InsertFailed(u)
    \/ \E linkId \in RecordIds : GetMetadataStatus(linkId)
    \/ \E t \in DOMAIN tasks, ok \in BOOLEAN : SetProcessing(t, ok)
    \/ \E t \in DOMAIN tasks, r \in Responses : ProviderAnswered(t, r)
    \/ \E t \in DOMAIN tasks, ok \in BOOLEAN : UpdateLinkMetadata(t, ok)
    \/ \E t \in DOMAIN tasks, ok \in BOOLEAN : SetCompleted(t, ok)
    \/ \E t \in DOMAIN tasks, ok \in BOOLEAN : SetFailed(t, ok)

SpecStatus == InitStatus /\ [][NextStatus]_vars

\* upload requests: POST /upload with any body, the uploadLink calls the
\* request makes one after the other (enrichment tasks are started but not
\* scheduled)
InitRequest ==
    /\ files = << >>
    /\ calls = << >>
    /\ tasks = << >>
    /\ budget = [uploads |-> 0, retries |-> 0]
    /\ ogEnv = Empty

\* the bodies a further request can arrive with
NewBodies ==
    IF Cardinality(CallsOfKind("request")) < MaxRequests THEN Bodies ELSE {}

NextRequest ==
    \/ \E body \in NewBodies, receiver \in Receivers, c \in Codes :
          UploadLinksRequest(body, receiver, c)
    \/ \E r \in DOMAIN calls, c \in Codes : ItemEnded(r, c)
    \/ \E u \in DOMAIN calls, c \in Codes : ShortCodeChecked(u, c)
    \/ \E u \in DOMAIN calls : Inserted(u)
    \/ \E u \in DOMAIN calls : InsertFailed(u)

SpecRequest == InitRequest /\ [][NextRequest]_vars

\* the three endpoints of the links router: an upload request, and GET / or
\* GET /search at any moment
NextRouter ==
    \/ \E body \in NewBodies, receiver \in Receivers, c \in Codes :
          UploadLinksRequest(body, receiver, c)
    \/ \E r \in DOMAIN calls, c \in Codes : ItemEnded(r, c)
    \/ \E u \in DOMAIN calls, c \in Codes : ShortCodeChecked(u, c)
    \/ \E u \in DOMAIN calls : Inserted(u)
    \/ \E u \in DOMAIN calls : InsertFailed(u)
    \/ \E uploaderId \in UploaderIdParams, receiver \in Receivers :
          GetLinksRequest(uploaderId, receiver)
    \/ \E q \in Queries, receiver \in Receivers :
          SearchLinksRequest(q, receiver)

SpecRouter == InitRequest /\ [][NextRouter]_vars

\* sequential allocation: one generateMultipleShortCodes call against a
\* collection that is empty or holds one record, and that nobody writes to
InitAlloc ==
    /\ files \in { << >>, << NewFileDoc(1) >> }
    /\ calls = << >>
    /\ tasks = << >>
    /\ budget = [uploads |-> 0, retries |-> 0]
    /\ ogEnv = Empty

NextAlloc ==
    \/ \E count \in 0..MaxCount, c \in Codes :
          GenerateMultipleShortCodes(count, c)
    \/ \E u \in DOMAIN calls, c \in Codes : MultiShortCodeChecked(u, c)

SpecAlloc == InitAlloc /\ [][NextAlloc]_vars

\* a link record of an earlier upload by a signed-in user, enrichment COMPLETED
StoredLinkDoc ==
    [NewLinkDoc([url |-> GoodUrl, title |-> "X", description |-> "Y",
                 categories |-> <<"website">>, tags |-> <<"t">>,
                 uploadIp |-> "10.0.0.1", uploaderId |-> "user1"], 2)
        EXCEPT !.metadataStatus = COMPLETED]

\* enrichment runs next to other records: the store holds two link records
\* and retryMetadataExtraction starts runs on either of them
InitFrame ==
    /\ files = << FailedLinkDoc, StoredLinkDoc >>
    /\ calls = << >>
    /\ tasks = << >>
    /\ budget = [uploads |-> 0, retries |-> MaxRepeats]
    /\ ogEnv = Empty

NextFrame ==
    \/ \E linkId \in RecordIds : RetryMetadataExtraction(linkId)
    \/ \E t \in DOMAIN tasks, ok \in BOOLEAN : SetProcessing(t, ok)
    \/ \E t \in DOMAIN tasks, r \in Responses : ProviderAnswered(t, r)
    \/ \E t \in DOMAIN tasks, ok \in BOOLEAN : UpdateLinkMetadata(t, ok)
    \/ \E t \in DOMAIN tasks, ok \in BOOLEAN : SetCompleted(t, ok)
    \/ \E t \in DOMAIN tasks, ok \in BOOLEAN : SetFailed(t, ok)

SpecFrame == InitFrame /\ [][NextFrame]_vars

\* soft delete and the readers: one upload, its enrichment run, deleteFile
\* and a search or listing at any moment
InitDelete ==
    /\ files = << >>
    /\ calls = << >>
    /\ tasks = << >>
    /\ budget = [uploads |-> MaxUploads, retries |-> 0]
    /\ ogEnv = Empty

NextDelete ==
    \/ \E input \in LinkInputs, c \in Codes : UploadLink(input, c)
    \/ \E c \in Codes : FileUpload(c)
    \/ \E u \in DOMAIN calls, c \in Codes : ShortCodeChecked(u, c)
    \/ \E u \in DOMAIN calls : Inserted(u)
    \/ \E u \in DOMAIN calls : InsertFailed(u)
    \/ \E fileId \in DOMAIN files : DeleteFile(fileId)
    \/ \E query \in Queries : SearchLinks(query)
    \/ \E uploaderId \in UploaderIds : GetUserLinks(uploaderId)
    \/ \E t \in DOMAIN tasks, ok \in BOOLEAN : SetProcessing(t, ok)
    \/ \E t \in DOMAIN tasks, r \in Responses : ProviderAnswered(t, r)
    \/ \E t \in DOMAIN tasks, ok \in BOOLEAN : UpdateLinkMetadata(t, ok)
    \/ \E t \in DOMAIN tasks, ok \in BOOLEAN : SetCompleted(t, ok)
    \/ \E t \in DOMAIN tasks, ok \in BOOLEAN : SetFailed(t, ok)

SpecDelete == InitDelete /\ [][NextDelete]_vars

\* the characters of a drawn code
InitCode ==
    /\ files = << >>
    /\ calls = << >>
    /\ tasks = << >>
    /\ budget = [uploads |-> 0, retries |-> 0]
    /\ ogEnv = Empty

\* the random indices of a draw that can still be made
Draws ==
    IF CallsOfKind("draw") = {} THEN [1..codeLength -> DrawIndices] ELSE {}

NextCode ==
    \E idx \in Draws : GenerateShortCode(idx)

SpecCode == InitCode /\ [][NextCode]_vars

\* the same with progress: a pending findOne is eventually answered
SpecAllocFair == SpecAlloc /\ WF_vars(NextAlloc)

\* enrichment when the store accepts every write: one upload and one retry,
\* whose runs can overlap on the record. The catch block of a run is entered
\* only by a rejected updateLinkMetadata, so SetFailed has no step here.
NextWritesOk ==
    \/ \E input \in LinkInputs, c \in Codes : UploadLink(input, c)
    \/ \E u \in DOMAIN calls, c \in Codes : ShortCodeChecked(u, c)
    \/ \E u \in DOMAIN calls : Inserted(u)
    \/ \E linkId \in RecordIds : RetryMetadataExtraction(linkId)
    \/ \E t \in DOMAIN tasks : SetProcessing(t, TRUE)
    \/ \E t \in DOMAIN tasks, r \in Responses : ProviderAnswered(t, r)
    \/ \E t \in DOMAIN tasks : UpdateLinkMetadata(t, TRUE)
    \/ \E t \in DOMAIN tasks : SetCompleted(t, TRUE)

\* a step of an enrichment run: an awaited store write or provider request
\* of the run resolves
RunStep ==
    \/ \E t \in DOMAIN tasks : SetProcessing(t, TRUE)
    \/ \E t \in DOMAIN tasks, r \in Responses : ProviderAnswered(t, r)
    \/ \E t \in DOMAIN tasks : UpdateLinkMetadata(t, TRUE)
    \/ \E t \in DOMAIN tasks : SetCompleted(t, TRUE)

SpecWritesOk == Init /\ [][NextWritesOk]_vars

\* every provider request returns, fails or times out and every write is
\* answered, so a run that can take a step eventually takes one
SpecWritesOkFair == SpecWritesOk /\ WF_vars(RunStep)

----------------------------------------------------------------------------
(* Claims *)

\* the upload call that created record id, 0 if none
CallOf(id) ==
    IF \E u \in DOMAIN calls : calls[u].result._id = id
    THEN CHOOSE u \in DOMAIN calls : calls[u].result._id = id
    ELSE 0

\* a run has ended when its task has no statement left to execute
RunEnded(t) == tasks[t].pc = "done"

\* C1: a non-empty title (description) supplied by the caller is still the
\* stored linkTitle (linkDescription) once enrichment runs on the record have
\* ended, whatever the resolver returned.
C1_CallerFieldsKept ==
    \A t \in DOMAIN tasks :
        LET id == tasks[t].linkId
            u == CallOf(id)
        IN  (RunEnded(t) /\ u # 0) =>
               /\ calls[u].input.title # Empty
                     => files[id].linkTitle = calls[u].input.title
               /\ calls[u].input.description # Empty
                     => files[id].linkDescription = calls[u].input.description

\* C2: every change of a stored metadataStatus is PENDING->PROCESSING,
\* PROCESSING->COMPLETED, PROCESSING->FAILED or FAILED->PROCESSING.
AllowedStatusChanges ==
    { <<PENDING, PROCESSING>>, <<PROCESSING, COMPLETED>>,
      <<PROCESSING, FAILED>>, <<FAILED, PROCESSING>> }

C2_StatusMovesForward ==
    [][\A id \in DOMAIN files :
          files'[id].metadataStatus # files[id].metadataStatus =>
             <<files[id].metadataStatus, files'[id].metadataStatus>>
                 \in AllowedStatusChanges]_vars

\* C3: no two enrichment tasks are in flight for the same record.
C3_SingleFlight ==
    \A t1, t2 \in DOMAIN tasks :
        (t1 # t2 /\ InFlight(t1) /\ InFlight(t2)) =>
            tasks[t1].linkId # tasks[t2].linkId

\* C4: no two records of the files collection carry the same shortCode.
C4_ShortCodesUnique ==
    \A i, j \in DOMAIN files :
        i # j => files[i].shortCode # files[j].shortCode

\* C5: while a provider request of a run is outstanding, the stored
\* metadataStatus of its record is PROCESSING.
C5_ProcessingWhileFetching ==
    \A t \in DOMAIN tasks :
        tasks[t].pc = "fetch" =>
            files[tasks[t].linkId].metadataStatus = PROCESSING

\* C6 (as claimed): a run that sets COMPLETED or FAILED has written the
\* metadata its resolver produced before that status write.
C6_TerminalAfterMetadata ==
    \A t \in DOMAIN tasks :
        tasks[t].last \in {COMPLETED, FAILED} => tasks[t].metaWritten

\* C6 (amended): a run that sets COMPLETED has written the metadata its
\* resolver produced before, so every non-empty field of that result is
\* stored on the record; a run sets FAILED only after its metadata write was
\* rejected, so it has written none of its metadata.
C6_CompletedAfterMetadata ==
    \A t \in DOMAIN tasks :
        LET rec == files[tasks[t].linkId]
            m == tasks[t].metadata
        IN  /\ tasks[t].last = COMPLETED =>
                 /\ tasks[t].metaWritten
                 /\ m.title # Empty => rec.linkTitle # Empty
                 /\ m.description # Empty => rec.linkDescription # Empty
                 /\ m.thumbnail # Empty => rec.linkThumbnail # Empty
            /\ tasks[t].last = FAILED =>
                 /\ ~tasks[t].metaWritten
                 /\ tasks[t].caught = "updateLinkMetadata"

C6_Witness ==
    \E t \in DOMAIN tasks :
        /\ tasks[t].last = COMPLETED
        /\ tasks[t].metaWritten
        /\ tasks[t].metadata = MetaTD
        /\ files[tasks[t].linkId].linkTitle = "T1"

\* C7: uploadLink returns as soon as its insert is acknowledged: every stored
\* record has been returned by a finished call, the record returned for a link
\* carries metadataStatus PENDING, and the task an upload started never finds
\* its upload call still waiting.
C7_UploadReturnsPending ==
    /\ \A id \in DOMAIN files :
          /\ CallOf(id) # 0
          /\ calls[CallOf(id)].pc = "done"
    /\ \A u \in DOMAIN calls :
          (calls[u].pc = "done" /\ calls[u].kind = "link") =>
              /\ calls[u].result._id \in DOMAIN files
              /\ calls[u].result.doc.metadataStatus = PENDING
    /\ \A t \in DOMAIN tasks :
          tasks[t].origin # 0 =>
              /\ calls[tasks[t].origin].pc = "done"
              /\ calls[tasks[t].origin].result._id = tasks[t].linkId

\* an upload has returned while the first provider request of its task is
\* still unanswered
C7_Witness ==
    \E t \in DOMAIN tasks :
        /\ tasks[t].origin # 0
        /\ tasks[t].pc = "fetch"
        /\ tasks[t].resp = << >>
        /\ calls[tasks[t].origin].pc = "done"
        /\ calls[tasks[t].origin].result.doc.metadataStatus = PENDING

\* C8: a run in which an exception was raised (a rejected store write) leaves
\* the stored metadataStatus of its record FAILED when it ends.
C8_ExceptionEndsFailed ==
    \A t \in DOMAIN tasks :
        (RunEnded(t) /\ tasks[t].raised) =>
            files[tasks[t].linkId].metadataStatus = FAILED

\* every configured provider was queried and none gave a usable result
AllFailedOrEmpty(t) ==
    /\ Len(tasks[t].resp) = Len(ogServices(ogEnv))
    /\ \A k \in DOMAIN tasks[t].resp :
          tasks[t].resp[k].threw \/ tasks[t].resp[k].meta = EmptyMeta

C9_ExhaustedStep ==
    \A t \in DOMAIN tasks' :
        (AllFailedOrEmpty(t))' =>
            /\ tasks'[t].metadata = EmptyMeta
            /\ tasks'[t].caught # "extractLinkMetadata"
            /\ tasks'[t].pc # "fetch"
            /\ (t \in DOMAIN tasks /\ tasks[t].pc = "updateMeta"
                   /\ tasks'[t].pc # "updateMeta") =>
                  LET id == tasks[t].linkId
                  IN  /\ files'[id].linkTitle = files[id].linkTitle
                      /\ files'[id].linkDescription = files[id].linkDescription
                      /\ files'[id].linkThumbnail = files[id].linkThumbnail
            /\ (tasks'[t].pc = "done" /\ ~tasks'[t].raised) =>
                  /\ tasks'[t].last = COMPLETED
                  /\ (t \in DOMAIN tasks /\ tasks[t].pc # "done") =>
                        files'[tasks[t].linkId].metadataStatus = COMPLETED

C10_FirstUsableProvider ==
    \A t \in DOMAIN tasks :
        LET r == tasks[t].resp
            services == ogServices(ogEnv)
            Usable(k) == ~r[k].threw /\ r[k].meta # EmptyMeta
        IN  /\ Len(r) <= Len(services)
            /\ \A k \in DOMAIN r : r[k].service = services[k]
            /\ \A k \in DOMAIN r : Usable(k) => k = Len(r)
            /\ tasks[t].pc \in {"setProcessing", "fetch"} =>
                  \A k \in DOMAIN r : ~Usable(k)
            /\ tasks[t].pc \notin {"setProcessing", "fetch"} =>
                  IF \E k \in DOMAIN r : Usable(k)
                  THEN tasks[t].metadata = r[Len(r)].meta
                  ELSE Len(r) = Len(services) /\ tasks[t].metadata = EmptyMeta
            /\ tasks[t].caught # "extractLinkMetadata"

C10_Witness ==
    \E t \in DOMAIN tasks :
        /\ RunEnded(t)
        /\ Len(tasks[t].resp) = 2
        /\ tasks[t].resp[1].threw
        /\ tasks[t].resp[2].meta = MetaH
        /\ tasks[t].metadata = MetaH
        /\ files[tasks[t].linkId].linkThumbnail = "H2"

\* C11: every call of retryMetadataExtraction that finds its link record in
\* FAILED starts a new run on that record; the run persists PROCESSING before
\* its first provider request and has persisted COMPLETED or FAILED when it
\* ends. This holds for each repetition of the call.
C11_RetryRunsFullCycle ==
    \A u \in DOMAIN calls :
        (calls[u].kind = "retry" /\ calls[u].was = FAILED) =>
            /\ calls[u].pc = "started"
            /\ calls[u].task \in DOMAIN tasks
            /\ LET t == calls[u].task
               IN  /\ tasks[t].linkId = calls[u].linkId
                   /\ tasks[t].pc \notin {"setProcessing", "done"} =>
                         tasks[t].last = PROCESSING
                   /\ tasks[t].pc = "done" =>
                         tasks[t].last \in {COMPLETED, FAILED}

\* C12: getMetadataStatus answers with the metadataStatus of the record it
\* read, and the answer carries the metadata triple (the stored title,
\* description and thumbnail) exactly when that status is COMPLETED; for
\* PENDING, PROCESSING and FAILED it carries none, whatever is stored.
C12_MetadataOnlyWhenCompleted ==
    \A u \in DOMAIN calls :
        (calls[u].kind = "status" /\ calls[u].rec.isLink) =>
            LET rec == calls[u].rec
                a == calls[u].answer
            IN  /\ ~a.threw
                /\ a.status = rec.metadataStatus
                /\ a.hasMetadata <=> rec.metadataStatus = COMPLETED
                /\ a.hasMetadata =>
                      a.metadata = [title |-> rec.linkTitle,
                                    description |-> rec.linkDescription,
                                    thumbnail |-> rec.linkThumbnail]

\* one poll found the record in PROCESSING with a title already stored and
\* got no metadata, a later one found it COMPLETED and got the triple
C12_Witness ==
    \E u, v \in DOMAIN calls :
        /\ calls[u].kind = "status" /\ calls[v].kind = "status"
        /\ calls[u].rec.isLink
        /\ calls[u].answer.status = PROCESSING
        /\ calls[u].rec.linkTitle # Empty
        /\ ~calls[u].answer.hasMetadata
        /\ calls[v].answer.status = COMPLETED
        /\ calls[v].answer.hasMetadata
        /\ calls[v].answer.metadata.title # Empty

\* requests that passed validation and went to the batch service
BatchRequests ==
    {r \in DOMAIN calls : calls[r].kind = "request"
                            /\ calls[r].service = "uploadLinks"}

\* the uploadLink call made for item k of request r
ChildOf(r, k) == calls[calls[r].children[k]]

\* C13: uploadLinks handles every item on its own: once it has returned,
\* every input item has had its uploadLink call, an item whose call returned
\* a record is in files (and the record is stored), an item whose call threw
\* is in errors under its original url, no item is in both, so the sizes of
\* files and errors add up to the number of inputs; a failed item does not
\* keep a later one from being persisted.
C13_EveryItemFilesOrErrors ==
    \A r \in BatchRequests :
        LET items == calls[r].body.urls.items
            acc == calls[r].acc
            Done == {k \in DOMAIN items : ChildOf(r, k).pc = "done"}
        IN  calls[r].pc = "responded" =>
               /\ Len(calls[r].children) = Len(items)
               /\ Len(acc.files) + Len(acc.errors) = Len(items)
               /\ Len(acc.files) = Cardinality(Done)
               /\ \A k \in Done :
                     /\ ChildOf(r, k).result._id \in DOMAIN files
                     /\ \E i \in DOMAIN acc.files :
                           acc.files[i] = ChildOf(r, k).result._id
               /\ \A k \in DOMAIN items \ Done :
                     /\ ChildOf(r, k).result = NoRecord
                     /\ \E i \in DOMAIN acc.errors :
                           acc.errors[i].url = items[k].url
               /\ \A i \in DOMAIN acc.errors :
                     \E k \in DOMAIN items \ Done :
                         acc.errors[i].url = items[k].url

\* a batch whose first item failed and whose second item was persisted
C13_Witness ==
    \E r \in BatchRequests :
        /\ calls[r].pc = "responded"
        /\ calls[r].body.urls.items[1].url = BadUrl
        /\ calls[r].body.urls.items[2].url = GoodUrl
        /\ Len(calls[r].acc.errors) = 1
        /\ calls[r].acc.errors[1].url = BadUrl
        /\ Len(calls[r].acc.files) = 1
        /\ calls[r].acc.files[1] \in DOMAIN files

\* C14: a request with two or more URLs is answered with success = TRUE
\* only if no item failed; when an item failed the answer is 201 with
\* success = FALSE, the partial-failure message and the list format: the
\* persisted records in data.files, their number in data.total and every
\* failed url in data.errors, however many items succeeded.
C14_PartialFailureReported ==
    \A r \in BatchRequests :
        LET acc == calls[r].acc
            res == calls[r].response
        IN  calls[r].pc = "responded" =>
               /\ res.success => acc.errors = << >>
               /\ acc.errors # << >> =>
                     /\ res.status = 201
                     /\ ~res.success
                     /\ res.message = MsgPartialFailure
                     /\ res.shape = "list"
                     /\ res.files = acc.files
                     /\ res.total = Len(acc.files)
                     /\ res.errors = acc.errors

\* C15: a request whose urls array holds exactly one item, of invalid url
\* format, is answered with 400, success = FALSE and the invalid-URL
\* message, and no record is stored for it.
C15_InvalidSingleUrlIs400 ==
    \A r \in DOMAIN calls :
        (/\ calls[r].kind = "request"
         /\ calls[r].service = "uploadLink"
         /\ calls[r].body.urls.items[1].url = BadUrl
         /\ calls[r].pc = "responded") =>
            /\ calls[r].response.status = 400
            /\ ~calls[r].response.success
            /\ calls[r].response.message = ErrInvalidUrl
            /\ ChildOf(r, 1).result = NoRecord

\* C16: a request without a non-empty urls array, without a non-empty
\* categories array, or with an item that has no url field is answered with
\* 400, success = FALSE and the message of a check it fails; the service is
\* called for none of its items, and every stored record was stored for an
\* item of a request that passed the three checks.
\* (A routed request that fails one of the first two checks is not answered:
\* the check logs this.getClientIp(req) with this undefined, and the
\* TypeError goes to next.)
C16_InvalidRequestRejected ==
    /\ \A r \in DOMAIN calls :
          LET body == calls[r].body
              res == calls[r].response
              NoUrls == ~body.urls.isArray \/ body.urls.items = << >>
              NoCategories ==
                  ~body.categories.isArray \/ body.categories.items = << >>
              ItemWithoutUrl ==
                  \E k \in DOMAIN body.urls.items :
                      body.urls.items[k].url = Empty
          IN  (calls[r].kind = "request"
                  /\ (NoUrls \/ NoCategories \/ ItemWithoutUrl)) =>
                 /\ calls[r].pc = "responded"
                 /\ res.status = 400
                 /\ ~res.success
                 /\ res.message \in {MsgNoUrlList, MsgNoCategory, MsgMissingUrl}
                 /\ res.message = MsgNoUrlList => NoUrls
                 /\ res.message = MsgNoCategory => NoCategories
                 /\ res.message = MsgMissingUrl => ItemWithoutUrl
                 /\ calls[r].service = "none"
                 /\ calls[r].children = << >>
    /\ \A u \in DOMAIN calls :
          calls[u].kind = "link" =>
              \E r \in DOMAIN calls :
                  /\ calls[r].kind = "request"
                  /\ ValidateRequest(calls[r].body) = "ok"
                  /\ \E k \in DOMAIN calls[r].children :
                        calls[r].children[k] = u
    /\ \A id \in DOMAIN files : CallOf(id) # 0

\* C17: an uploadLink call whose url does not parse, or parses with a scheme
\* other than http and https, throws the invalid-URL error at once: it draws
\* no short code, inserts no record and starts no enrichment task, and the
\* step in which it is made leaves the store as it was.
C17_InvalidUrlStep ==
    \A u \in DOMAIN calls' :
        LET url == calls'[u].input.url
        IN  (/\ calls'[u].kind = "link"
             /\ ~ParseUrl(url).ok \/ ParseUrl(url).protocol \notin {"http:", "https:"}) =>
                /\ calls'[u].pc = "invalidUrl"
                /\ ErrorOf(calls'[u].pc) = ErrInvalidUrl
                /\ calls'[u].attempts = 0
                /\ calls'[u].shortCode = 0
                /\ calls'[u].result = NoRecord
                /\ \A t \in DOMAIN tasks' : tasks'[t].origin # u
                /\ u \notin DOMAIN calls => files' = files /\ tasks' = tasks

C17_InvalidUrlRejectedFirst == [][C17_InvalidUrlStep]_vars

\* uploadLink was called with an ftp url and threw; nothing is stored
C17_Witness ==
    \E u \in DOMAIN calls :
        /\ calls[u].kind = "link"
        /\ calls[u].input.url = FtpUrl
        /\ calls[u].pc = "invalidUrl"
        /\ calls[u].attempts = 0
        /\ files = << >>
        /\ tasks = << >>

\* C18: a retryMetadataExtraction call whose id matches no record, or a
\* record that is not a link, throws the not-found error; the step starts no
\* enrichment task and changes no record.
C18_RetryNotFoundStep ==
    \A u \in DOMAIN calls' \ DOMAIN calls :
        (/\ calls'[u].kind = "retry"
         /\ \/ calls'[u].linkId \notin DOMAIN files
            \/ ~files[calls'[u].linkId].isLink) =>
            /\ calls'[u].pc = "notFound"
            /\ calls'[u].task = 0
            /\ tasks' = tasks
            /\ files' = files

C18_RetryNotFound == [][C18_RetryNotFoundStep]_vars

\* a retry was called on the id of a stored binary file record
C18_Witness ==
    \E u \in DOMAIN calls :
        /\ calls[u].kind = "retry"
        /\ calls[u].linkId \in DOMAIN files
        /\ ~files[calls[u].linkId].isLink
        /\ calls[u].pc = "notFound"
        /\ tasks = << >>

\* C19: generateUniqueShortCode returns a code only in the step in which
\* the existence check of that very draw resolved and found no stored record
\* with it; a draw found in the store is never returned: it is replaced by a
\* new draw that is checked in turn (or the call throws).
C19_ReturnedCodeStep ==
    \A u \in DOMAIN calls :
        LET Stored == \E k \in DOMAIN files :
                          files[k].shortCode = calls[u].shortCode
        IN  calls[u].pc = "exists" =>
               /\ calls'[u].pc = "insert" =>
                     /\ ~Stored
                     /\ calls'[u].shortCode = calls[u].shortCode
               /\ (Stored /\ calls'[u] # calls[u]) =>
                     /\ calls'[u].pc \in {"exists", "exhausted"}
                     /\ calls'[u].attempts = calls[u].attempts + 1

C19_ReturnsOnlyUnstoredCode == [][C19_ReturnedCodeStep]_vars

\* a draw collided with a stored code, was redrawn, and the second draw was
\* returned and inserted
C19_Witness ==
    \E u \in DOMAIN calls :
        /\ calls[u].kind = "link"
        /\ calls[u].attempts = 2
        /\ calls[u].pc = "done"
        /\ \E k \in DOMAIN files :
              /\ k # calls[u].result._id
              /\ files[k].shortCode # calls[u].shortCode

\* C20: the codes of N sequential allocations, made by one
\* generateMultipleShortCodes(N) with nothing inserted in between, are
\* pairwise distinct.
C20_SequentialCodesDistinct ==
    \A u \in DOMAIN calls :
        (calls[u].kind = "multi" /\ calls[u].pc = "done") =>
            \A i, j \in DOMAIN calls[u].shortCodes :
                i # j => calls[u].shortCodes[i] # calls[u].shortCodes[j]

\* C21: generateUniqueShortCode terminates. A draw is checked against the
\* store only while it is one of the first 100 draws of the allocation; a
\* draw found absent is returned at once; a draw found stored is followed by
\* a new draw, except that the allocation throws exactly when the draw found
\* stored was the 100th, so at most 100 existence checks are made; and every
\* call ends by returning or throwing.
C21_AllocationStep ==
    \A u \in DOMAIN calls :
        LET Stored == \E k \in DOMAIN files :
                          files[k].shortCode = calls[u].shortCode
        IN  (calls[u].kind = "multi" /\ calls[u].pc = "check") =>
               /\ calls[u].attempts \in 1..100
               /\ calls'[u] # calls[u] =>
                     IF Stored
                     THEN /\ calls'[u].shortCodes = calls[u].shortCodes
                          /\ calls'[u].attempts = calls[u].attempts + 1
                          /\ calls'[u].pc = "exhausted"
                                <=> calls[u].attempts = 100
                     ELSE /\ calls'[u].pc # "exhausted"
                          /\ calls'[u].shortCodes =
                                Append(calls[u].shortCodes, calls[u].shortCode)

C21_EveryCallEnds ==
    (calls # << >>) ~> (calls # << >> /\ calls[1].pc \in {"done", "exhausted"})

C21_AllocatorTerminates == [][C21_AllocationStep]_vars /\ C21_EveryCallEnds

\* an allocation threw after 100 draws that were all found in the store
C21_Witness ==
    \E u \in DOMAIN calls :
        /\ calls[u].kind = "multi"
        /\ calls[u].pc = "exhausted"
        /\ calls[u].attempts = 101

\* C22: every drawn code has exactly 6 characters, each of them a letter of
\* A-Z other than O or a digit of 1-9; it contains neither "O" nor "0" and
\* validateShortCode accepts it.
C22_CodeFormat ==
    \A u \in DOMAIN calls :
        calls[u].kind = "draw" =>
            LET code == calls[u].code
            IN  /\ Len(code) = 6
                /\ \A i \in 1..Len(code) :
                      /\ code[i] \in (UpperLetters \ {"O"}) \cup (Digits \ {"0"})
                      /\ code[i] # "O"
                      /\ code[i] # "0"
                /\ validateShortCode(code)

\* a code made of the letters around the omitted O and of both ends of the
\* digit range
C22_Witness ==
    \E u \in DOMAIN calls :
        /\ calls[u].kind = "draw"
        /\ calls[u].code = <<"N", "P", "Z", "1", "9", "A">>
        /\ validateShortCode(calls[u].code)

\* C23: the provider list a run iterates over is the custom provider of
\* OG_SERVICE_URL, when set, followed by microlink and then opengraph.xyz;
\* when it is unset the list is microlink, opengraph.xyz.
C23_CustomThenBuiltIns ==
    \A t \in DOMAIN tasks :
        tasks[t].pc # "setProcessing" =>
            ogServices(ogEnv) =
                IF ogEnv # Empty
                THEN << ogEnv, MicrolinkUrl, OpenGraphXyzUrl >>
                ELSE << MicrolinkUrl, OpenGraphXyzUrl >>

\* C24: the record an uploadLink call inserts has metadataStatus PENDING and
\* status ACTIVE, and as long as no write of an enrichment task for it has
\* been applied the stored record is the inserted one and a reader gets
\* PENDING for it.
C24_InsertedPendingActive ==
    \A id \in DOMAIN files :
        files[id].isLink =>
            LET u == CallOf(id)
                NoWriteYet ==
                    \A t \in DOMAIN tasks :
                        tasks[t].linkId = id =>
                            tasks[t].last = NoStatus /\ ~tasks[t].metaWritten
            IN  /\ u # 0
                /\ calls[u].kind = "link"
                /\ calls[u].result.doc.metadataStatus = PENDING
                /\ calls[u].result.doc.status = ACTIVE
                /\ NoWriteYet =>
                      /\ files[id] = calls[u].result.doc
                      /\ getMetadataStatus(files, id).status = PENDING

\* a status poll read the record as PENDING while its enrichment task had
\* not performed its first write
C24_Witness ==
    \E u \in DOMAIN calls, t \in DOMAIN tasks :
        /\ calls[u].kind = "status"
        /\ calls[u].linkId = tasks[t].linkId
        /\ tasks[t].pc = "setProcessing"
        /\ calls[u].answer.status = PENDING
        /\ calls[u].rec.status = ACTIVE
        /\ files[tasks[t].linkId].metadataStatus = PENDING

\* the searchLinks and getUserLinks calls made so far
ReaderCalls == CallsOfKind("search") \cup CallsOfKind("list")

\* C25: searchLinks and getUserLinks never return a record whose lifecycle
\* status is DELETED: every returned document is a link with a status other
\* than DELETED and was not DELETED in the store when the reader ran. A
\* soft-deleted record stays DELETED through every later step, the writes of
\* its own enrichment run included.
C25_ReadersStep ==
    /\ \A u \in DOMAIN calls' :
          calls'[u].kind \in {"search", "list"} =>
              \A k \in DOMAIN calls'[u].links :
                  /\ calls'[u].links[k].doc.isLink
                  /\ calls'[u].links[k].doc.status # DELETED
                  /\ calls'[u].links[k]._id \notin calls'[u].deleted
    /\ \A id \in DOMAIN files :
          files[id].status = DELETED => files'[id].status = DELETED

C25_DeletedNeverReturned == [][C25_ReadersStep]_vars

\* a record was soft-deleted while its enrichment run was waiting for the
\* provider; the run then wrote the title and COMPLETED, and a later search
\* for that title returned nothing
C25_Witness ==
    \E d \in CallsOfKind("delete"), u \in CallsOfKind("search"), t \in DOMAIN tasks :
        /\ calls[d].runPc = "fetch"
        /\ tasks[t].linkId = calls[d].fileId
        /\ ~InFlight(t)
        /\ files[calls[d].fileId].status = DELETED
        /\ files[calls[d].fileId].metadataStatus = COMPLETED
        /\ files[calls[d].fileId].linkTitle = "T1"
        /\ calls[d].fileId \in calls[u].deleted
        /\ calls[u].query = "t1"
        /\ calls[u].links = << >>

\* C26: a step of an enrichment run changes nothing in the store but
\* metadataStatus, linkTitle, linkDescription and linkThumbnail of the run's
\* own record: no record is added or removed, every other record is left as
\* it was, and shortCode, linkUrl, uploadIp, uploaderId, categories, tags,
\* isLink and the lifecycle status of the own record keep their values.
C26_RunStep ==
    \A t \in DOMAIN tasks :
        tasks'[t] # tasks[t] =>
            /\ DOMAIN files' = DOMAIN files
            /\ \A id \in DOMAIN files :
                  /\ id # tasks[t].linkId => files'[id] = files[id]
                  /\ [files'[id] EXCEPT
                         !.metadataStatus = files[id].metadataStatus,
                         !.linkTitle = files[id].linkTitle,
                         !.linkDescription = files[id].linkDescription,
                         !.linkThumbnail = files[id].linkThumbnail] = files[id]

C26_RunWritesOwnMetadataOnly == [][C26_RunStep]_vars

\* a run on the first record wrote its title and COMPLETED while the second
\* record is as it was stored
C26_Witness ==
    \E t \in DOMAIN tasks :
        /\ tasks[t].linkId = 1
        /\ tasks[t].pc = "done"
        /\ tasks[t].metaWritten
        /\ files[1].metadataStatus = COMPLETED
        /\ files[1].linkTitle = "T1"
        /\ files[1].shortCode = 1
        /\ files[1].status = ACTIVE
        /\ files[2] = StoredLinkDoc

\* the answers of the three endpoints given so far
Responded ==
    {u \in DOMAIN calls :
        calls[u].kind \in {"request", "getLinks", "searchLinks"}
           /\ calls[u].pc = "responded"}

\* C27: every link object in an answer of the upload, list and search
\* endpoints has only keys of the createSafeLink whitelist; uploadIp and
\* metadataStatus, which the stored record has, are not among them.
C27_OnlySafeFields ==
    \A u \in Responded :
        \A k \in DOMAIN calls[u].response.data :
            /\ DOMAIN calls[u].response.data[k] \subseteq SafeFields
            /\ "uploadIp" \notin DOMAIN calls[u].response.data[k]

\* an upload was answered with its link, and a later listing answered the
\* stored record, which has an uploadIp
C27_Witness ==
    \E r \in CallsOfKind("request"), g \in CallsOfKind("getLinks") :
        /\ calls[r].pc = "responded"
        /\ Len(calls[r].response.data) = 1
        /\ calls[r].response.data[1].linkUrl = GoodUrl
        /\ Len(calls[g].response.data) = 1
        /\ calls[g].response.data[1]._id = calls[r].response.data[1]._id
        /\ files[calls[g].response.data[1]._id].uploadIp = "10.0.0.1"

\* C28: the record stored for an item of an upload request has as
\* categories the request's categories followed by the item's own, and as
\* tags the request's tags followed by the item's own, duplicates kept; on
\* the single-URL path these are the lists the batch service computes for
\* the same item.
C28_GlobalThenItemLists ==
    \A r \in CallsOfKind("request") :
        \A k \in DOMAIN calls[r].children :
            LET child == calls[calls[r].children[k]]
                body == calls[r].body
                item == body.urls.items[k]
            IN  child.pc = "done" =>
                   /\ files[child.result._id].categories =
                          body.categories.items \o item.categories
                   /\ files[child.result._id].tags = body.tags \o item.tags
                   /\ calls[r].service = "uploadLink" =>
                          /\ files[child.result._id].categories =
                                 EnrichedLinkData(BatchDataOf(body),
                                                  LinkDataOf(item)).categories
                          /\ files[child.result._id].tags =
                                 EnrichedLinkData(BatchDataOf(body),
                                                  LinkDataOf(item)).tags

\* a single-URL request whose item repeats the request's category and
\* brings a tag of its own was stored with both lists concatenated
C28_Witness ==
    \E r \in CallsOfKind("request") :
        /\ calls[r].service = "uploadLink"
        /\ calls[r].pc = "responded"
        /\ calls[r].body.tags = <<"g">>
        /\ calls[r].body.urls.items[1].tags = <<"t">>
        /\ ChildOf(r, 1).pc = "done"
        /\ files[ChildOf(r, 1).result._id].categories = <<"website", "website">>
        /\ files[ChildOf(r, 1).result._id].tags = <<"g", "t">>

\* the runs a behaviour can dispatch
RunIds == 1..(MaxUploads + MaxRetries)

\* C29: when every provider request ends and every store write succeeds,
\* each dispatched enrichment run eventually ends with its record COMPLETED
\* or FAILED; and whenever a record has had a run dispatched and none of its
\* runs is in flight, its metadataStatus is COMPLETED or FAILED, never
\* PENDING or PROCESSING, also when two runs overlapped on it.
C29_NoRunInFlightIsTerminal ==
    \A id \in DOMAIN files :
        (/\ \E t \in DOMAIN tasks : tasks[t].linkId = id
         /\ \A t \in DOMAIN tasks :
               tasks[t].linkId = id => tasks[t].pc = "done") =>
            files[id].metadataStatus \in {COMPLETED, FAILED}

C29_RunsEndTerminal ==
    /\ []C29_NoRunInFlightIsTerminal
    /\ \A t \in RunIds :
          (t \in DOMAIN tasks) ~>
              (/\ t \in DOMAIN tasks
               /\ tasks[t].pc = "done"
               /\ files[tasks[t].linkId].metadataStatus \in {COMPLETED, FAILED})

\* the run of the upload and the run of a retry overlapped on the record:
\* the retry found the record PROCESSING, both runs have ended and the
\* record has a terminal status
C29_Witness ==
    /\ Len(tasks) = 2
    /\ tasks[1].linkId = tasks[2].linkId
    /\ tasks[1].pc = "done"
    /\ tasks[2].pc = "done"
    /\ \E u \in CallsOfKind("retry") : calls[u].was = PROCESSING
    /\ tasks[1].last \in {COMPLETED, FAILED}
    /\ tasks[2].last \in {COMPLETED, FAILED}
    /\ files[tasks[1].linkId].metadataStatus \in {COMPLETED, FAILED}

\* C30: a step of an enrichment run never clears stored metadata: a
\* linkTitle, linkDescription or linkThumbnail that is not empty before the
\* step is not empty after it, whatever the resolver returned, an all-empty
\* result on a retry included.
C30_RunStep ==
    \A t \in DOMAIN tasks :
        tasks'[t] # tasks[t] =>
            \A id \in DOMAIN files :
                /\ files[id].linkTitle # Empty => files'[id].linkTitle # Empty
                /\ files[id].linkDescription # Empty =>
                       files'[id].linkDescription # Empty
                /\ files[id].linkThumbnail # Empty =>
                       files'[id].linkThumbnail # Empty

C30_MetadataNeverCleared == [][C30_RunStep]_vars

\* a retry on the record with a stored title and description got nothing
\* from the providers, its updateLinkMetadata was applied, and the title and
\* the description are still there
C30_Witness ==
    \E t \in DOMAIN tasks :
        /\ tasks[t].linkId = 2
        /\ tasks[t].pc = "done"
        /\ tasks[t].metadata = EmptyMeta
        /\ tasks[t].metaWritten
        /\ files[2].linkTitle = "X"
        /\ files[2].linkDescription = "Y"
====
